---- MODULE Spec2Model ----
(***************************************************************************)
(* A model of thesaurus/thesaurus.py: the Thesaurus graph (concepts,       *)
(* skos:broader / skos:narrower edges, the :own_frequency and              *)
(* :cum_frequency literals), the two lru_cache memos (broaders and         *)
(* get_cumulative_freq), the least-common-subsumer and Lin similarity      *)
(* queries, and get_sim_dict (fresh build and cache load).                 *)
(*                                                                         *)
(* Labels, the concept scheme node, the remote fetches, serialisation,     *)
(* plotting and the centrality rankings are left out: no modelled          *)
(* operation reads them.                                                   *)
(***************************************************************************)
EXTENDS Integers, Sequences, FiniteSets, TLC

VARIABLES
    concepts,     \* subjects of (x, rdf:type, skos:Concept)
    broader,      \* pairs <<x, y>>: the triple (x, skos:broader, y)
    narrower,     \* pairs <<x, y>>: the triple (x, skos:narrower, y)
    own_freq,     \* the :own_frequency literals, a function on the subjects that have one
    cum_freq,     \* the :cum_frequency literals, likewise
    cum_memo,     \* lru_cache of get_cumulative_freq, keyed by its arguments
    br_memo,      \* lru_cache of broaders, keyed by the concept
    ret,          \* the last call made and what it returned
    n_path,       \* add_path and query_thesaurus calls made so far
    n_freq,       \* add_frequencies calls made so far
    queried       \* whether get_lcs / get_lin_similarity was called yet

vars == <<concepts, broader, narrower, own_freq, cum_freq, cum_memo, br_memo,
          ret, n_path, n_freq, queried>>

\* ---------------------------------------------------------------- bounds

\* the URIs callers pass besides the root
Cpts == {"A", "A1", "B"}

\* the amounts callers pass to add_frequencies
Amounts == {4, 6}

\* calls that change the taxonomy: add_path, query_thesaurus, add_frequencies
MaxCalls == 4

\* entries of a legacy cache mapping
MaxEntries == 2

\* ---------------------------------------------------------------- constants

\* Thesaurus.__init__: top_uri = rdflib.URIRef(':T')
top_uri == "T"

Uris == Cpts \cup {top_uri}

\* float('inf'); above every frequency the bounded calls can store
inf == 1000000

\* ---------------------------------------------------------------- helpers

\* dict / triple-store assignment: f with key k set to v
Set(f, k, v) == [x \in (DOMAIN f) \cup {k} |-> IF x = k THEN v ELSE f[x]]

\* the empty mapping
Empty == [x \in {} |-> 0]

\* the objects of (x, p, None)
Objects(rel, x) == {e[2] : e \in {d \in rel : d[1] = x}}

\* the property path  rel+  from x: everything reachable in one or more steps
RECURSIVE Reach(_, _, _)
Reach(rel, frontier, seen) ==
    LET next == UNION {Objects(rel, x) : x \in frontier} \ seen
    IN  IF next = {} THEN seen ELSE Reach(rel, next, seen \cup next)

Plus(rel, x) == Reach(rel, {x}, {})

\* the property path  rel*  from x: zero or more steps
Star(rel, x) == {x} \cup Plus(rel, x)

\* ---------------------------------------------------------------- the graph

Init ==
    /\ concepts = {top_uri}
    /\ broader = {}
    /\ narrower = {}
    /\ own_freq = Empty
    /\ cum_freq = Empty
    /\ cum_memo = Empty
    /\ br_memo = Empty
    /\ ret = [op |-> "__init__"]
    /\ n_path = 0
    /\ n_freq = 0
    /\ queried = FALSE

get_all_concepts == concepts

\* concepts that are the object of no skos:broader triple
get_leaves == concepts \ {e[2] : e \in broader}

\* the paths callers pass: chains of distinct URIs, from the more general to
\* the more specific
Paths ==
    {p \in UNION {[1..n -> Cpts] : n \in 1..Cardinality(Cpts)} :
        \A i, j \in 1..Len(p) : i # j => p[i] # p[j]}

\* the skos:broader triples add_path(path) adds
PathBroader(path) ==
    {<<path[1], top_uri>>} \cup {<<path[i + 1], path[i]>> : i \in 1..(Len(path) - 1)}

\* a slip in the else branch: the root link written with subject and object swapped
PathNarrowerSwapped(path) ==
    {<<path[1], top_uri>>} \cup {<<path[i], path[i + 1]>> : i \in 1..(Len(path) - 1)}

\* the skos:narrower triples add_path(path) adds
PathNarrower(path) ==
    {<<top_uri, path[1]>>} \cup {<<path[i], path[i + 1]>> : i \in 1..(Len(path) - 1)}

add_path(path) ==
    /\ n_path + n_freq < MaxCalls
    /\ concepts' = concepts \cup {path[i] : i \in 1..Len(path)}
    /\ broader' = broader \cup PathBroader(path)
    /\ narrower' = narrower \cup PathNarrower(path)
    /\ ret' = [op |-> "add_path", path |-> path]
    /\ n_path' = n_path + 1
    /\ UNCHANGED <<own_freq, cum_freq, cum_memo, br_memo, n_freq, queried>>

\* the exports query_thesaurus parses: one concept, a top concept of its scheme
\* or a concept the export links to nothing
Exports == [cpt : Cpts, top : BOOLEAN]

\* query_thesaurus: parse the export, then link every top concept under the root
query_thesaurus(doc) ==
    /\ n_path + n_freq < MaxCalls
    /\ concepts' = concepts \cup {doc.cpt}
    /\ broader' = broader \cup (IF doc.top THEN {<<doc.cpt, top_uri>>} ELSE {})
    /\ narrower' = narrower \cup (IF doc.top THEN {<<top_uri, doc.cpt>>} ELSE {})
    /\ ret' = [op |-> "query_thesaurus"]
    /\ n_path' = n_path + 1
    /\ UNCHANGED <<own_freq, cum_freq, cum_memo, br_memo, n_freq, queried>>

\* ---------------------------------------------------------------- frequencies

\* self.value(c, :own_frequency), def_value when there is none
get_own_freq(c, def_value) == IF c \in DOMAIN own_freq THEN own_freq[c] ELSE def_value

\* the body of get_cumulative_freq: self.value(c, :cum_frequency), or def_value
CumValue(c, def_value) == IF c \in DOMAIN cum_freq THEN cum_freq[c] ELSE def_value

\* the lru_cache key of a get_cumulative_freq call: "0" for the positional
\* def_value = 0 of add_frequencies, "-" for the one-argument calls
CumKey(c, how) == <<c, how>>

\* what get_cumulative_freq returns: the memoised value when the key is cached
get_cumulative_freq(c, how, def_value) ==
    IF CumKey(c, how) \in DOMAIN cum_memo
    THEN cum_memo[CumKey(c, how)]
    ELSE CumValue(c, def_value)

\* the memo after get_cumulative_freq was called for every concept of cs
CumMemoAfter(cs, how, def_value) ==
    [key \in (DOMAIN cum_memo) \cup {CumKey(c, how) : c \in cs} |->
        IF key \in DOMAIN cum_memo THEN cum_memo[key] ELSE CumValue(key[1], def_value)]

\* add_frequencies(cpt_uri, cpt_freq) with path omitted and def_value = 0
add_frequencies(c, k) ==
    LET path == Star(broader, c)
    IN  /\ n_path + n_freq < MaxCalls
        /\ own_freq' = Set(own_freq, c, get_own_freq(c, 0) + k)
        /\ cum_freq' = [x \in (DOMAIN cum_freq) \cup path |->
                           IF x \in path
                           THEN get_cumulative_freq(x, "0", 0) + k
                           ELSE cum_freq[x]]
        /\ cum_memo' = CumMemoAfter(path, "0", 0)
        /\ ret' = [op |-> "add_frequencies"]
        /\ n_freq' = n_freq + 1
        /\ UNCHANGED <<concepts, broader, narrower, br_memo, n_path, queried>>

\* ---------------------------------------------------------------- ancestors and LCS

\* what broaders returns: the memoised set when the concept is cached
broaders(c) == IF c \in DOMAIN br_memo THEN br_memo[c] ELSE Plus(broader, c)

\* the memo after broaders was called for every concept of cs
BrMemoAfter(cs) ==
    [c \in (DOMAIN br_memo) \cup cs |->
        IF c \in DOMAIN br_memo THEN br_memo[c] ELSE Plus(broader, c)]

\* a one-argument get_cumulative_freq(c) call: def_value = 1
Freq(c) == get_cumulative_freq(c, "-", 1)

\* cs = {x: get_cumulative_freq(x) for x in cpt_path1 & cpt_path2}
CommonSubsumers(c1, c2) == broaders(c1) \cap broaders(c2)

\* a slip in the key: the entry of greatest frequency is taken
MaxByFreq(cs) == {x \in cs : \A y \in cs : Freq(x) >= Freq(y)}

\* min(cs.items(), key = frequency): any entry of least frequency (the first
\* one met in the dict's iteration order, which the set's hashing decides)
MinByFreq(cs) == {x \in cs : \A y \in cs : Freq(x) <= Freq(y)}

\* the pairs (lcs, freq) get_lcs(c1, c2) can return
get_lcs(c1, c2) ==
    IF c1 = c2
    THEN {[lcs |-> c1, freq |-> Freq(c1)]}
    ELSE IF c1 \in broaders(c2)
    THEN {[lcs |-> c1, freq |-> Freq(c1)]}
    ELSE IF c2 \in broaders(c1)
    THEN {[lcs |-> c2, freq |-> Freq(c2)]}
    ELSE IF CommonSubsumers(c1, c2) = {}
    THEN {[lcs |-> top_uri, freq |-> inf]}
    ELSE {[lcs |-> x, freq |-> Freq(x)] : x \in MinByFreq(CommonSubsumers(c1, c2))}

\* the concepts get_lcs(c1, c2) calls broaders for
LcsBroadersCalls(c1, c2) == IF c1 = c2 THEN {} ELSE {c1, c2}

\* the concepts get_lcs(c1, c2) calls get_cumulative_freq for
LcsFreqCalls(c1, c2) ==
    IF c1 = c2 THEN {c1}
    ELSE IF c1 \in broaders(c2) THEN {c1}
    ELSE IF c2 \in broaders(c1) THEN {c2}
    ELSE CommonSubsumers(c1, c2)

\* ---------------------------------------------------------------- Lin similarity

\* A score is kept exact, not as a float: 0, 1, the ratio
\* 2*ln(l/t) / (ln(a/t) + ln(b/t)) by its four frequencies, or the
\* AssertionError of line 292.
Score(kind, l, a, b, t) ==
    [kind |-> kind, l |-> l, lo |-> IF a <= b THEN a ELSE b,
     hi |-> IF a <= b THEN b ELSE a, t |-> t]

Zero == Score("zero", 0, 0, 0, 0)

One == Score("one", 0, 0, 0, 0)

AssertionError == Score("AssertionError", 0, 0, 0, 0)

\* 0. <= score <= 1 for score = 2*p_lcs / (p1 + p2), p1 + p2 # 0, decided on the
\* integers: ln(l/t) <= 0 iff l <= t, and 2*ln(l/t) >= ln(a/t) + ln(b/t) iff l*l >= a*b
InUnitInterval(l, a, b, t) ==
    IF a * b < t * t
    THEN l <= t /\ l * l >= a * b
    ELSE l >= t /\ l * l <= a * b

\* lines 283-293: the score from the frequencies of lcs, c1, c2 and the root
LinScore(l, a, b, t) ==
    IF a * b = t * t THEN One                         \* p1 + p2 == 0
    ELSE IF ~InUnitInterval(l, a, b, t) THEN AssertionError
    ELSE IF l = t THEN Zero                           \* p_lcs == 0
    ELSE IF l * l = a * b THEN One                    \* 2 * p_lcs == p1 + p2
    ELSE Score("ratio", l, a, b, t)

\* the early return for a root LCS left out
LinOfNoRootCheck(c1, c2, r) == LinScore(r.freq, Freq(c1), Freq(c2), Freq(top_uri))

\* what get_lin_similarity(c1, c2) returns when get_lcs returned r
LinOf(c1, c2, r) ==
    IF r.lcs = top_uri THEN Zero
    ELSE LinScore(r.freq, Freq(c1), Freq(c2), Freq(top_uri))

\* the scores get_lin_similarity(c1, c2) can return (or raise)
get_lin_similarity(c1, c2) ==
    IF c1 = c2 THEN {One} ELSE {LinOf(c1, c2, r) : r \in get_lcs(c1, c2)}

\* the get_cumulative_freq calls of get_lin_similarity(c1, c2) when get_lcs returned r
LinFreqCalls(c1, c2, r) ==
    LcsFreqCalls(c1, c2) \cup (IF r.lcs = top_uri THEN {} ELSE {c1, c2, top_uri})

\* ---------------------------------------------------------------- get_sim_dict

\* the orders list(s) can give a set s
Perms(S) == {f \in [1..Cardinality(S) -> S] : \A i, j \in DOMAIN f : i # j => f[i] # f[j]}

\* all_cpts = list(leaves) + list(all_cpts - leaves): the leaves first, each
\* part in its set's iteration order
LeafFirstOrders ==
    {p \o q : p \in Perms(get_leaves), q \in Perms(get_all_concepts \ get_leaves)}

\* np.eye(n), indexed from 0
Eye(n) == [c \in (0..(n - 1)) \X (0..(n - 1)) |-> IF c[1] = c[2] THEN One ELSE Zero]

\* top_cpts: the objects of (top_uri, skos:narrower, None)
top_cpts == Objects(narrower, top_uri)

\* cpt_clusters: per top concept, everything under it by skos:narrower*
cpt_clusters == {Star(narrower, top_cpt) : top_cpt \in top_cpts}

\* any(cpt2 in cluster for cluster in cpt1_clusters)
ShareCluster(cpt1, cpt2) == \E cluster \in cpt_clusters : cpt1 \in cluster /\ cpt2 \in cluster

\* what get_lcs(cpt1, cpt2) returns during a build in which the ties between
\* the root and another concept go to the root for the pairs of root_first
LcsDuring(cpt1, cpt2, root_first) ==
    LET rs == get_lcs(cpt1, cpt2)
        roots == {r \in rs : r.lcs = top_uri}
        others == rs \ roots
    IN  IF roots # {} /\ (others = {} \/ {cpt1, cpt2} \in root_first)
        THEN CHOOSE r \in roots : TRUE
        ELSE CHOOSE r \in others : TRUE

\* the score get_lin_similarity(cpt1, cpt2) returns during that build
LinDuring(cpt1, cpt2, root_first) ==
    IF cpt1 = cpt2 THEN One ELSE LinOf(cpt1, cpt2, LcsDuring(cpt1, cpt2, root_first))

\* the pairs, unordered, for which get_lcs can return the root or another
\* concept (a build scores a pair at most once)
RootTies ==
    {p \in SUBSET concepts :
        \E c1, c2 \in p :
            /\ c1 # c2
            /\ p = {c1, c2}
            /\ \E r1, r2 \in get_lcs(c1, c2) : r1.lcs = top_uri /\ r2.lcs # top_uri}

\* lines 507-508: for j in range(i - 1 if i > 0 else 0): sim_dict[i, j] = sim_dict[j, i]
MirrorRow(sim_dict, i) ==
    [c \in DOMAIN sim_dict |->
        IF c[1] = i /\ c[2] < (IF i > 0 THEN i - 1 ELSE 0)
        THEN sim_dict[<<c[2], c[1]>>]
        ELSE sim_dict[c]]

\* lines 523-528: the zero link between the ancestor sets of cpt1 and cpt2
ZeroLinked(lin0_score, cpt1, cpt2) ==
    LET brs1 == broaders(cpt1) \cup {cpt1}
        brs2 == broaders(cpt2) \cup {cpt1}
    IN  [ph \in Uris |->
            lin0_score[ph] \cup (IF ph \in brs1 THEN brs2 ELSE {})
                           \cup (IF ph \in brs2 THEN brs1 ELSE {})]

\* the column the score of (all_cpts[i], cpt2) is written to, for the j of
\* enumerate(all_cpts[i:])
Column(i, j) == j

\* lines 511-528: one pass of the inner loop, for row i and the j-th element
\* of all_cpts[i:]; b is the build so far. np.isclose(lin_score, 0) holds of
\* the score 0 alone: a ratio of frequencies this small is never within 1e-8 of 0
BuildCell(b, all_cpts, i, j, root_first) ==
    LET cpt1 == all_cpts[i + 1]
        cpt2 == all_cpts[i + j + 1]
        cell == <<i, Column(i, j)>>
        pair == <<cpt1, cpt2>>
    IN  IF b.raised THEN b
        ELSE IF ~ShareCluster(cpt1, cpt2)
        THEN [b EXCEPT !.sim_dict[cell] = Zero]
        ELSE IF cpt2 \in b.lin0_score[cpt1] \/ cpt1 \in b.lin0_score[cpt2]
        THEN [b EXCEPT !.sim_dict[cell] = Zero, !.shortcut = @ \cup {pair}]
        ELSE LET lin_score == LinDuring(cpt1, cpt2, root_first)
             IN  IF lin_score = AssertionError
                 THEN [b EXCEPT !.raised = TRUE, !.lin_calls = @ \cup {pair}]
                 ELSE [b EXCEPT !.sim_dict[cell] = lin_score,
                                !.lin_calls = @ \cup {pair},
                                !.lin_scores = [q \in (DOMAIN @) \cup {pair} |->
                                                   IF q = pair THEN lin_score ELSE @[q]],
                                !.lin0_score = IF lin_score = Zero
                                               THEN ZeroLinked(@, cpt1, cpt2)
                                               ELSE @]

\* lines 498-528: the rows from i on, row i from the j-th element of all_cpts[i:] on
RECURSIVE BuildRows(_, _, _, _, _)
BuildRows(b, all_cpts, i, j, root_first) ==
    IF i = Len(all_cpts) THEN b
    ELSE IF j = Len(all_cpts) - i THEN BuildRows(b, all_cpts, i + 1, 0, root_first)
    ELSE LET b1 == IF j = 0 /\ ~b.raised
                   THEN [b EXCEPT !.sim_dict = MirrorRow(@, i)]
                   ELSE b
         IN  BuildRows(BuildCell(b1, all_cpts, i, j, root_first), all_cpts, i, j + 1, root_first)

\* str(x) of a URIRef: the plain string of its text, no longer a URIRef
Str(x) == [str |-> x]

\* lines 482-536: the fresh build over the order all_cpts
FreshBuild(all_cpts, root_first) ==
    BuildRows([sim_dict |-> Eye(Len(all_cpts)),
               lin0_score |-> [ph \in Uris |-> {}],
               lin_calls |-> {},
               lin_scores |-> Empty,
               shortcut |-> {},
               raised |-> FALSE],
              all_cpts, 0, 0, root_first)

\* the concepts a build calls broaders for: both ends of every pair it scores
\* (the zero link asks for the same two again)
BuildBroadersCalls(b) == UNION {LcsBroadersCalls(q[1], q[2]) : q \in b.lin_calls}

\* the concepts a build calls get_cumulative_freq for
BuildFreqCalls(b, root_first) ==
    UNION {IF q[1] = q[2] THEN {}
           ELSE LinFreqCalls(q[1], q[2], LcsDuring(q[1], q[2], root_first)) : q \in b.lin_calls}

\* ---------------------------------------------------------------- the cache file

\* the cells of an n x n matrix
Cells(n) == (0..(n - 1)) \X (0..(n - 1))

\* a legacy nested mapping {rowIndex -> {colIndex -> score}}: its rows are
\* the rows of its entries <<<<row, col>>, score>>
LegacyDict(entries) ==
    [shape |-> "dict",
     rows |-> [i \in {e[1][1] : e \in entries} |->
                 [j \in {e[1][2] : e \in {x \in entries : x[1][1] = i}} |->
                     (CHOOSE e \in entries : e[1] = <<i, j>>)[2]]]]

\* the sets of at most k of the entries es
RECURSIVE UpTo(_, _)
UpTo(es, k) ==
    IF k = 0 THEN {{}}
    ELSE LET smaller == UpTo(es, k - 1)
         IN  smaller \cup {s \cup {e} : s \in smaller, e \in es}

\* the entries a legacy mapping over the indices of n concepts is drawn from:
\* per cell the score np.eye does not hold there, so that a lost entry shows
Entries(n) == {<<c, IF c[1] = c[2] THEN Zero ELSE One>> : c \in Cells(n)}

\* the legacy mappings of at most MaxEntries entries
LegacyDicts(n) == {LegacyDict(entries) : entries \in UpTo(Entries(n), MaxEntries)}

\* a canonical pair (matrix, orderedIds), as the fresh build pickles it
CanonicalPairs ==
    {[shape |-> "pair", sim_dict |-> Eye(Len(ids)),
      all_cpts |-> [i \in DOMAIN ids |-> Str(ids[i])]] : ids \in LeafFirstOrders}

\* what pickle.load can give for the file at sim_dict_path
Pickles == CanonicalPairs \cup LegacyDicts(Cardinality(concepts))

\* len(unpickled)
PickleLen(unpickled) ==
    IF unpickled.shape = "pair" THEN 2 ELSE Cardinality(DOMAIN unpickled.rows)

\* lines 444-456: the matrix and the ids for the legacy mapping sim_dict, over the order all_cpts
create_matrix_from_dict(sim_dict, all_cpts) ==
    [sim_dict |-> [c \in Cells(Len(all_cpts)) |->
                      IF c[1] \in DOMAIN sim_dict /\ c[2] \in DOMAIN sim_dict[c[1]]
                      THEN sim_dict[c[1]][c[2]]
                      ELSE Eye(Len(all_cpts))[c]],
     all_cpts |-> all_cpts]

\* a row key of a legacy mapping, where it is taken for the matrix or the ids
RowKey(k) == <<"key", k>>

\* lines 472-480: get_sim_dict when the cache file exists and refresh is not
\* set. sim_dict, all_cpts = unpickled unpacks whatever has length 2: the
\* canonical pair, or the two row keys of a legacy mapping of two rows
get_sim_dict_load(unpickled) ==
    /\ queried' = TRUE
    /\ UNCHANGED <<concepts, broader, narrower, own_freq, cum_freq, cum_memo, br_memo,
                   n_path, n_freq>>
    /\ IF PickleLen(unpickled) = 2
       THEN IF unpickled.shape = "pair"
            THEN ret' = [op |-> "get_sim_dict_load", unpickled |-> unpickled,
                         unpacked |-> "pair",
                         sim_dict |-> unpickled.sim_dict, all_cpts |-> unpickled.all_cpts]
            ELSE \E k1, k2 \in DOMAIN unpickled.rows :
                    /\ k1 # k2
                    /\ ret' = [op |-> "get_sim_dict_load", unpickled |-> unpickled,
                               unpacked |-> "keys",
                               sim_dict |-> RowKey(k1), all_cpts |-> RowKey(k2)]
       ELSE \E all_cpts \in LeafFirstOrders :
                \E r \in {create_matrix_from_dict(unpickled.rows, all_cpts)} :
                    ret' = [op |-> "get_sim_dict_load", unpickled |-> unpickled,
                            unpacked |-> "pair",
                            sim_dict |-> r.sim_dict, all_cpts |-> r.all_cpts]

\* ---------------------------------------------------------------- calls

AddPath == \E path \in Paths : add_path(path)

AddFrequencies == \E c \in concepts, k \in Amounts : add_frequencies(c, k)

QueryThesaurus == \E doc \in Exports : query_thesaurus(doc)

\* one get_lcs call on the populated taxonomy
GetLcs ==
    /\ ~queried
    /\ \E c1 \in concepts, c2 \in concepts : \E r \in get_lcs(c1, c2) :
        /\ ret' = [op |-> "get_lcs", c1 |-> c1, c2 |-> c2, lcs |-> r.lcs, freq |-> r.freq]
        /\ br_memo' = BrMemoAfter(LcsBroadersCalls(c1, c2))
        /\ cum_memo' = CumMemoAfter(LcsFreqCalls(c1, c2), "-", 1)
        /\ queried' = TRUE
        /\ UNCHANGED <<concepts, broader, narrower, own_freq, cum_freq, n_path, n_freq>>

\* one get_lin_similarity call on the populated taxonomy
GetLinSimilarity ==
    /\ ~queried
    /\ \E c1 \in concepts, c2 \in concepts :
        /\ queried' = TRUE
        /\ UNCHANGED <<concepts, broader, narrower, own_freq, cum_freq, n_path, n_freq>>
        /\ IF c1 = c2
           THEN /\ ret' = [op |-> "get_lin_similarity", c1 |-> c1, c2 |-> c2,
                           lcs |-> c1, score |-> One]
                /\ UNCHANGED <<br_memo, cum_memo>>
           ELSE \E r \in get_lcs(c1, c2) :
                /\ ret' = [op |-> "get_lin_similarity", c1 |-> c1, c2 |-> c2,
                           lcs |-> r.lcs, score |-> LinOf(c1, c2, r)]
                /\ br_memo' = BrMemoAfter(LcsBroadersCalls(c1, c2))
                /\ cum_memo' = CumMemoAfter(LinFreqCalls(c1, c2, r), "-", 1)

\* the hierarchy is built first and the frequency records are ingested after it
\* (query_and_add_cpt_frequencies: query_thesaurus, then add_frequencies per record)
BuildHierarchy == n_freq = 0 /\ AddPath

NextFreq == BuildHierarchy \/ AddFrequencies

SpecFreq == Init /\ [][NextFreq]_vars

\* get_sim_dict(sim_dict_path, the, refresh) when there is no cache file or
\* refresh is set: the fresh build, once, on the populated taxonomy
GetSimDictFresh ==
    /\ ~queried
    /\ \E all_cpts \in LeafFirstOrders, root_first \in SUBSET RootTies :
        \E b \in {FreshBuild(all_cpts, root_first)} :
            /\ queried' = TRUE
            /\ ret' = [op |-> "get_sim_dict", raised |-> b.raised,
                       all_cpts |-> [i \in DOMAIN all_cpts |-> Str(all_cpts[i])],
                       sim_dict |-> b.sim_dict, lin_calls |-> b.lin_calls,
                       lin_scores |-> b.lin_scores, shortcut |-> b.shortcut]
            /\ br_memo' = BrMemoAfter(BuildBroadersCalls(b))
            /\ cum_memo' = CumMemoAfter(BuildFreqCalls(b, root_first), "-", 1)
            /\ UNCHANGED <<concepts, broader, narrower, own_freq, cum_freq, n_path, n_freq>>

NextPath == AddPath

SpecPath == Init /\ [][NextPath]_vars

\* the taxonomy is loaded and its frequencies ingested before it is queried
Populate == ~queried /\ ((n_freq = 0 /\ (AddPath \/ QueryThesaurus)) \/ AddFrequencies)

NextLcs == Populate \/ GetLcs

SpecLcs == Init /\ [][NextLcs]_vars

NextLin == Populate \/ GetLinSimilarity

\* get_sim_dict with a cache file at sim_dict_path, once, on a built hierarchy
GetSimDictLoad == ~queried /\ \E unpickled \in Pickles : get_sim_dict_load(unpickled)

NextLoad == (~queried /\ (AddPath \/ QueryThesaurus)) \/ GetSimDictLoad

SpecLoad == Init /\ [][NextLoad]_vars

NextBuild == Populate \/ GetSimDictFresh

SpecBuild == Init /\ [][NextBuild]_vars

SpecLin == Init /\ [][NextLin]_vars

\* every operation
Next == Populate \/ GetLcs \/ GetLinSimilarity \/ GetSimDictFresh \/ GetSimDictLoad

Spec == Init /\ [][Next]_vars

\* ---------------------------------------------------------------- claims

\* the :own_frequency literal of c, 0 (add_frequencies' def_value) when unset
StoredOwn(c) == get_own_freq(c, 0)

\* the :cum_frequency literal of c, 0 (add_frequencies' def_value) when unset
StoredCum(c) == CumValue(c, 0)

\* the hierarchy Top -> A -> A1, Top -> B with add_frequencies(A1, 4) and (B, 6) applied
ScenarioC1 ==
    /\ concepts = {top_uri, "A", "A1", "B"}
    /\ broader = {<<"A", top_uri>>, <<"A1", "A">>, <<"B", top_uri>>}
    /\ n_freq = 2
    /\ own_freq = [x \in {"A1", "B"} |-> IF x = "A1" THEN 4 ELSE 6]

\* C1: every add_frequencies(c, k) call raises the stored own frequency of c by k
\* and the stored cumulative frequency of c and of each of its ancestors by k;
\* in the scenario Top -> A -> A1, Top -> B with A1 += 4 and B += 6 the stored
\* cumulative frequencies are A1 = 4, A = 4, B = 6, Top = 10.
C1_AdditivePropagation ==
    /\ [][\A c \in Uris, k \in Amounts :
            add_frequencies(c, k) =>
                /\ StoredOwn(c)' = StoredOwn(c) + k
                /\ \A u \in {c} \cup Plus(broader, c) : StoredCum(u)' = StoredCum(u) + k]_vars
    /\ [](ScenarioC1 =>
            /\ StoredCum("A1") = 4 /\ StoredCum("A") = 4
            /\ StoredCum("B") = 6 /\ StoredCum(top_uri) = 10)

\* C2: after building with add_path and ingesting positive amounts, every
\* concept's stored cumulative frequency is at least its stored own frequency,
\* and the root's stored cumulative frequency is at least every other concept's.
C2_CumAtLeastOwnAndRootMax ==
    \A c \in concepts :
        /\ StoredCum(c) >= StoredOwn(c)
        /\ StoredCum(top_uri) >= StoredCum(c)

\* the hierarchy has no cycle of broader edges
Acyclic == \A x \in concepts : x \notin Plus(broader, x)

\* the :cum_frequency literal of c, 1 (get_cumulative_freq's def_value) when unset
CumFreq(c) == CumValue(c, 1)

\* C3: in an acyclic hierarchy get_lcs(a, b) returns (a, cumFreq(a)) when
\* a = b or a is an ancestor of b, (b, cumFreq(b)) when b is an ancestor of a,
\* otherwise a common ancestor of least cumulative frequency with that
\* frequency, and (root, +infinity) when a and b have no common ancestor.
C3_LcsContract ==
    (ret.op = "get_lcs" /\ Acyclic) =>
        LET a == ret.c1
            b == ret.c2
            common == Plus(broader, a) \cap Plus(broader, b)
        IN  IF a = b \/ a \in Plus(broader, b)
            THEN ret.lcs = a /\ ret.freq = CumFreq(a)
            ELSE IF b \in Plus(broader, a)
            THEN ret.lcs = b /\ ret.freq = CumFreq(b)
            ELSE IF common = {}
            THEN ret.lcs = top_uri /\ ret.freq = inf
            ELSE /\ ret.lcs \in common
                 /\ ret.freq = CumFreq(ret.lcs)
                 /\ \A y \in common : CumFreq(ret.lcs) <= CumFreq(y)

\* get_lcs returned a common ancestor below the root, of lower frequency than the root
C3_Witness ==
    /\ ret.op = "get_lcs" /\ Acyclic
    /\ ret.c1 # ret.c2
    /\ ret.c1 \notin Plus(broader, ret.c2) /\ ret.c2 \notin Plus(broader, ret.c1)
    /\ ret.lcs # top_uri
    /\ ret.lcs \in Plus(broader, ret.c1) \cap Plus(broader, ret.c2)
    /\ ret.freq < CumFreq(top_uri)

Monotone ==
    \A x \in concepts :
        /\ CumFreq(x) > 0
        /\ CumFreq(top_uri) >= CumFreq(x)
        /\ \A y \in Plus(broader, x) : CumFreq(y) >= CumFreq(x)

\* 0 <= s <= 1 for a returned score s
ScoreInUnit(s) ==
    \/ s.kind \in {"zero", "one"}
    \/ /\ s.kind = "ratio"
       /\ \/ s.lo * s.hi < s.t * s.t /\ s.l <= s.t /\ s.l * s.l >= s.lo * s.hi
          \/ s.lo * s.hi > s.t * s.t /\ s.l >= s.t /\ s.l * s.l <= s.lo * s.hi

\* C5: under frequency monotonicity get_lin_similarity returns a score in
\* [0, 1] and its range assertion does not fail.
C5_LinInUnitInterval ==
    (ret.op = "get_lin_similarity" /\ Monotone) =>
        ret.score # AssertionError /\ ScoreInUnit(ret.score)

\* a score strictly between 0 and 1 was returned for two concepts whose LCS
\* lies below the root, in a monotone taxonomy
C5_Witness ==
    /\ ret.op = "get_lin_similarity" /\ Monotone
    /\ ret.lcs # top_uri
    /\ ret.score.kind = "ratio"

\* the range assertion failed in a taxonomy that is not monotone
C5_AssertionReached == ret.op = "get_lin_similarity" /\ ret.score = AssertionError

\* C9 as claimed: add_path(p) links the first element of p under the root only
\* if that element had no broader concept before the call; consecutive elements
\* are linked both ways; broader and narrower stay inverse to each other.
C9_RootLinkOnlyIfUnanchored ==
    [][n_path' # n_path =>
        LET p == ret'.path
        IN  /\ (<<p[1], top_uri>> \in broader' \ broader) => Objects(broader, p[1]) = {}
            /\ \A i \in 1..(Len(p) - 1) :
                   <<p[i + 1], p[i]>> \in broader' /\ <<p[i], p[i + 1]>> \in narrower'
            /\ \A x, y \in Uris : <<x, y>> \in broader' <=> <<y, x>> \in narrower']_vars

\* C9 amended: add_path(p) links the first element of p under the root in every
\* call, also when that element already has a broader concept; consecutive
\* elements are linked both ways; broader and narrower stay inverse to each other.
C9_RootLinkAlways ==
    [][n_path' # n_path =>
        LET p == ret'.path
        IN  /\ <<p[1], top_uri>> \in broader' /\ <<top_uri, p[1]>> \in narrower'
            /\ \A i \in 1..(Len(p) - 1) :
                   <<p[i + 1], p[i]>> \in broader' /\ <<p[i], p[i + 1]>> \in narrower'
            /\ \A x, y \in Uris : <<x, y>> \in broader' <=> <<y, x>> \in narrower']_vars

\* add_path([B]) was called when B already had the broader concept A
C9_Witness ==
    /\ ret = [op |-> "add_path", path |-> <<"B">>]
    /\ n_path = 2
    /\ <<"B", "A">> \in broader
    /\ <<"B", top_uri>> \in broader /\ <<top_uri, "B">> \in narrower

\* two scores agree when they are the same 0, the same 1 or ratios (two
\* ratios of different frequencies are not told apart here)
Agree(s1, s2) == s1 = s2 \/ (s1.kind = "ratio" /\ s2.kind = "ratio")

\* the last call was a fresh build that returned its pair
Built == ret.op = "get_sim_dict" /\ ~ret.raised

\* the concept at index i (from 0) of the returned ordering
IdAt(i) == ret.all_cpts[i + 1].str

\* the indices of the returned matrix
Indices == 0..(Len(ret.all_cpts) - 1)

\* C6: the matrix of a fresh build is symmetric and has 1.0 on its diagonal
C6_SymmetricUnitDiagonal ==
    Built => \A i, j \in Indices :
                /\ Agree(ret.sim_dict[<<i, j>>], ret.sim_dict[<<j, i>>])
                /\ ret.sim_dict[<<i, i>>] = One

\* the root has two top-level branches and they share no concept
TwoDisjointBranches ==
    /\ Cardinality(top_cpts) = 2
    /\ \A t1, t2 \in top_cpts : t1 # t2 => Star(narrower, t1) \cap Star(narrower, t2) = {}

\* x and y lie in different branches
DifferentBranches(x, y) ==
    \E t1, t2 \in top_cpts :
        t1 # t2 /\ x \in Star(narrower, t1) /\ y \in Star(narrower, t2)

\* C7: with two disjoint top-level branches, a fresh build stores 0 at every
\* (i, j) whose concepts lie in different branches, and never calls
\* get_lin_similarity with a pair from different branches
C7_CrossBranchZeroUncomputed ==
    (ret.op = "get_sim_dict" /\ TwoDisjointBranches) =>
        /\ \A q \in ret.lin_calls : ~DifferentBranches(q[1], q[2])
        /\ ~ret.raised => \A i, j \in Indices :
               DifferentBranches(IdAt(i), IdAt(j)) => ret.sim_dict[<<i, j>>] = Zero

\* C10: after a fresh build, for i <= j with ids[i] and ids[j] in one cluster
\* and not short-circuited by a zero link, matrix[i][j] is the score the build
\* got from get_lin_similarity(ids[i], ids[j])
C10_ScoreStoredAtRowColumn ==
    Built => \A i, j \in Indices :
                (/\ i <= j
                 /\ ShareCluster(IdAt(i), IdAt(j))
                 /\ <<IdAt(i), IdAt(j)>> \notin ret.shortcut)
                => /\ <<IdAt(i), IdAt(j)>> \in DOMAIN ret.lin_scores
                   /\ Agree(ret.sim_dict[<<i, j>>], ret.lin_scores[<<IdAt(i), IdAt(j)>>])

\* C8: loading a cache file returns a persisted canonical pair unchanged, and
\* converts a persisted legacy mapping, whatever its number of rows, into the
\* pair of the taxonomy's leaf-first ordering and the matrix that holds
\* mapping[i][j] at [i][j] for every stored entry
C8_LoadEitherShape ==
    ret.op = "get_sim_dict_load" =>
        IF ret.unpickled.shape = "pair"
        THEN /\ ret.unpacked = "pair"
             /\ ret.sim_dict = ret.unpickled.sim_dict
             /\ ret.all_cpts = ret.unpickled.all_cpts
        ELSE /\ ret.unpacked = "pair"
             /\ ret.all_cpts \in LeafFirstOrders
             /\ \A i \in DOMAIN ret.unpickled.rows : \A j \in DOMAIN ret.unpickled.rows[i] :
                    ret.sim_dict[<<i, j>>] = ret.unpickled.rows[i][j]

\* C11: whenever a fresh build takes the zero-link shortcut for a pair (x, y),
\* get_lin_similarity(x, y) is 0 (0 is among the scores the call can return);
\* in particular x # y, and the pair is not a concept and its ancestor with
\* nonzero similarity
C11_ShortcutOnlyForZero ==
    ret.op = "get_sim_dict" =>
        \A q \in ret.shortcut :
            /\ q[1] # q[2]
            /\ Zero \in get_lin_similarity(q[1], q[2])

\* C12: for distinct concepts and monotone frequencies, the score of
\* get_lin_similarity(a, b) does not depend on which of the common ancestors
\* of least cumulative frequency get_lcs returns: any two admissible choices,
\* the root among them, give the same score
C12_LinTieIndependent ==
    (ret.op = "get_lin_similarity" /\ ret.c1 # ret.c2 /\ Monotone) =>
        \A r1, r2 \in get_lcs(ret.c1, ret.c2) :
            LinOf(ret.c1, ret.c2, r1) = LinOf(ret.c1, ret.c2, r2)

====
